---- MODULE Spec2Model ----
(***************************************************************************)
(* A model of the OVH DNS provider of external-dns (provider/ovh/ovh.go):  *)
(* the change planner (newOvhChangeCreateDelete, newOvhChangeUpdate), the  *)
(* record fetcher with its SOA-validated cache (Records, zonesRecords,     *)
(* records, record) and the executor (ApplyChanges,                        *)
(* handleSingleZoneUpdate, change, refresh).                               *)
(*                                                                         *)
(* DNS names are sequences of labels: "www.a.com" is <<"www","a","com">>   *)
(* and the empty subdomain "" is <<>>.  A label never holds a dot, so the  *)
(* string operations of the code (TrimSuffix, TrimPrefix, concatenation    *)
(* with ".") are exact on this representation.                             *)
(***************************************************************************)
EXTENDS Integers, Sequences, FiniteSets, TLC

\* ------------------------------------------------------------------------
\* Program constants (const block, ovh.go:42-47; iota counts from the first
\* line of the block, so ovhCreate is 1).
ovhDefaultTTL == 0
ovhCreate == 1
ovhDelete == 2
ovhUpdate == 3

\* ------------------------------------------------------------------------
\* Bounds of the model.
MaxRecords == 2
MaxTargets == 2
MaxRuns == 3
MaxExternal == 1
MaxFailures == 1

\* ------------------------------------------------------------------------
\* Alphabets the inputs are drawn from.
Z1 == <<"a", "com">>
Z2 == <<"b", "com">>
Www == <<"www">>
Apex == <<>>
T1 == "1.1.1.1"
T2 == "2.2.2.2"
T3 == "3.3.3.3"
RecordTypes == {"A"}
EndpointTTLs == {0, 300}

Min(S) == CHOOSE x \in S : \A y \in S : x <= y

SeqsUpTo(S, n) == UNION {[1..k -> S] : k \in 0..n}

NonEmptySeqsUpTo(S, n) == UNION {[1..k -> S] : k \in 1..n}

\* ------------------------------------------------------------------------
\* Strings and slices.

\* strings.TrimSuffix(name, "."+zone): the suffix is there when the name ends
\* with the labels of the zone and has at least one more label before them.
TrimSuffix(name, zone) ==
  IF Len(name) > Len(zone)
     /\ SubSeq(name, Len(name) - Len(zone) + 1, Len(name)) = zone
  THEN SubSeq(name, 1, Len(name) - Len(zone))
  ELSE name

\* strings.TrimPrefix(sub+"."+zone, "."): the labels of sub, then of zone.
HostName(sub, zone) == sub \o zone

\* slices.Delete(s, i, j): s without s[i:j], i and j counted from 0.
slicesDelete(s, i, j) == SubSeq(s, 1, i) \o SubSeq(s, j + 1, Len(s))

\* endpoint.TTL.IsConfigured
IsConfigured(ttl) == ttl > 0

\* ------------------------------------------------------------------------
\* Types.

\* ovhRecord
ovhRecord(id, zone, sub, type, target, ttl) ==
  [ID |-> id, Zone |-> zone, SubDomain |-> sub, FieldType |-> type,
   Target |-> target, TTL |-> ttl]

\* ovhChange: an ovhRecord and an Action
ovhChange(action, rec) ==
  [Action |-> action, ID |-> rec.ID, Zone |-> rec.Zone,
   SubDomain |-> rec.SubDomain, FieldType |-> rec.FieldType,
   Target |-> rec.Target, TTL |-> rec.TTL]

\* endpoint.Endpoint, the fields the provider reads
Endpoint(name, type, ttl, targets) ==
  [DNSName |-> name, RecordType |-> type, RecordTTL |-> ttl, Targets |-> targets]

\* plan.Changes
Changes(create, delete, updateOld, updateNew) ==
  [Create |-> create, Delete |-> delete, UpdateOld |-> updateOld,
   UpdateNew |-> updateNew]

\* ------------------------------------------------------------------------
\* newOvhChangeCreateDelete

\* The ovhChange built for one target of one endpoint (ID still 0).
NewChange(action, e, target, zone) ==
  [Action |-> action, ID |-> 0, Zone |-> zone,
   SubDomain |-> TrimSuffix(e.DNSName, zone), FieldType |-> e.RecordType,
   Target |-> target,
   TTL |-> IF IsConfigured(e.RecordTTL) THEN e.RecordTTL ELSE ovhDefaultTTL]

\* The inner loop of the Delete case: the index (from 1) of the first
\* existing record equal to the change in zone, subdomain, type and target,
\* 0 when there is none.
MatchIndex(change, existingRecords) ==
  LET hits == {i \in 1..Len(existingRecords) :
                 /\ existingRecords[i].Zone = change.Zone
                 /\ existingRecords[i].SubDomain = change.SubDomain
                 /\ existingRecords[i].FieldType = change.FieldType
                 /\ existingRecords[i].Target = change.Target}
  IN IF hits = {} THEN 0 ELSE Min(hits)

\* The two nested loops: out.changes is ovhChanges, out.ids is toDeleteIds
\* (indexes counted from 0, as in the code).
RECURSIVE CreateDeleteLoop(_, _, _, _, _, _, _)
CreateDeleteLoop(action, endpoints, zone, existingRecords, ei, ti, out) ==
  IF ei > Len(endpoints) THEN out
  ELSE IF ti > Len(endpoints[ei].Targets)
  THEN CreateDeleteLoop(action, endpoints, zone, existingRecords, ei + 1, 1, out)
  ELSE
    LET change == NewChange(action, endpoints[ei], endpoints[ei].Targets[ti], zone)
        m == IF action = ovhDelete THEN MatchIndex(change, existingRecords) ELSE 0
        matched == IF m > 0
                   THEN [change EXCEPT !.ID = existingRecords[m].ID]
                   ELSE change
    IN CreateDeleteLoop(action, endpoints, zone, existingRecords, ei, ti + 1,
         [changes |-> Append(out.changes, matched),
          ids |-> IF m > 0 THEN Append(out.ids, m - 1) ELSE out.ids])

\* The loop over toDeleteIds on the cloned list.
RECURSIVE RemoveConsumed(_, _, _)
RemoveConsumed(existingRecords, toDeleteIds, k) ==
  IF k > Len(toDeleteIds) THEN existingRecords
  ELSE RemoveConsumed(
         slicesDelete(existingRecords, toDeleteIds[k], toDeleteIds[k]),
         toDeleteIds, k + 1)

newOvhChangeCreateDelete(action, endpoints, zone, existingRecords) ==
  LET out == CreateDeleteLoop(action, endpoints, zone, existingRecords, 1, 1,
                              [changes |-> <<>>, ids |-> <<>>])
  IN [changes |-> out.changes,
      records |-> IF Len(out.ids) > 0
                  THEN RemoveConsumed(existingRecords, out.ids, 1)
                  ELSE existingRecords]

\* ------------------------------------------------------------------------
\* newOvhChangeUpdate

\* The map key e.RecordType+"//"+sub of an endpoint, and the key
\* record.FieldType+"//"+record.SubDomain of a record.
EndpointKey(e, zone) == <<e.RecordType, TrimSuffix(e.DNSName, zone)>>

RecordKey(record) == <<record.FieldType, record.SubDomain>>

\* The map built from a list of endpoints: a later endpoint with the same key
\* replaces an earlier one.
ByTypeAndName(endpoints, zone) ==
  LET keys == {EndpointKey(endpoints[i], zone) : i \in 1..Len(endpoints)}
      last(k) == CHOOSE i \in 1..Len(endpoints) :
                   /\ EndpointKey(endpoints[i], zone) = k
                   /\ \A j \in 1..Len(endpoints) :
                        EndpointKey(endpoints[j], zone) = k => j <= i
  IN [k \in keys |-> endpoints[last(k)]]

\* oldRecordsInZone[id]: the existing records with the key id, in their order.
\* The zone of a record is not compared.
OldRecordsInZone(id, existingRecords) ==
  SelectSeq(existingRecords, LAMBDA record : RecordKey(record) = id)

\* The loop over the targets of the new endpoint: a target found among
\* oldRecords calls slices.Delete(oldRecords, toDelete, toDelete), the others
\* go to toInsertTarget.
RECURSIVE MatchTargets(_, _, _, _)
MatchTargets(targets, ti, oldRecords, toInsertTarget) ==
  IF ti > Len(targets)
  THEN [oldRecords |-> oldRecords, toInsertTarget |-> toInsertTarget]
  ELSE
    LET hits == {i \in 1..Len(oldRecords) : targets[ti] = oldRecords[i].Target}
        toDelete == IF hits = {} THEN -1 ELSE Min(hits) - 1
    IN IF toDelete >= 0
       THEN MatchTargets(targets, ti + 1,
                         slicesDelete(oldRecords, toDelete, toDelete),
                         toInsertTarget)
       ELSE MatchTargets(targets, ti + 1, oldRecords,
                         Append(toInsertTarget, targets[ti]))

\* The loop that pairs the targets to insert with the records left: st holds
\* oldRecords, the Update changes and toInsertTargetToDelete (from 0).
RECURSIVE PairTargets(_, _, _, _)
PairTargets(toInsertTarget, i, endpointsNew, st) ==
  IF i > Len(toInsertTarget) \/ Len(st.oldRecords) = 0 THEN st
  ELSE
    LET record == [st.oldRecords[1] EXCEPT
                     !.Target = toInsertTarget[i],
                     !.TTL = IF IsConfigured(endpointsNew.RecordTTL)
                             THEN endpointsNew.RecordTTL ELSE ovhDefaultTTL]
    IN PairTargets(toInsertTarget, i + 1, endpointsNew,
         [oldRecords |-> slicesDelete(st.oldRecords, 0, 0),
          changes |-> Append(st.changes, ovhChange(ovhUpdate, record)),
          toInsertTargetToDelete |-> Append(st.toInsertTargetToDelete, i - 1)])

\* The loop over toInsertTargetToDelete.
RECURSIVE RemovePaired(_, _, _)
RemovePaired(toInsertTarget, toInsertTargetToDelete, k) ==
  IF k > Len(toInsertTargetToDelete) THEN toInsertTarget
  ELSE RemovePaired(
         slicesDelete(toInsertTarget, toInsertTargetToDelete[k],
                      toInsertTargetToDelete[k]),
         toInsertTargetToDelete, k + 1)

\* One round of the second loop over oldEndpointByTypeAndName: the changes of
\* the group id, whose new endpoint is endpointsNew.
UpdateGroup(id, endpointsNew, zone, existingRecords) ==
  LET matched == MatchTargets(endpointsNew.Targets, 1,
                              OldRecordsInZone(id, existingRecords), <<>>)
      paired == PairTargets(matched.toInsertTarget, 1, endpointsNew,
                  [oldRecords |-> matched.oldRecords, changes |-> <<>>,
                   toInsertTargetToDelete |-> <<>>])
      toInsertTarget == RemovePaired(matched.toInsertTarget,
                                     paired.toInsertTargetToDelete, 1)
      creates == [k \in 1..Len(toInsertTarget) |->
                   ovhChange(ovhCreate,
                     ovhRecord(0, zone, TrimSuffix(endpointsNew.DNSName, zone),
                               endpointsNew.RecordType, toInsertTarget[k],
                               IF IsConfigured(endpointsNew.RecordTTL)
                               THEN endpointsNew.RecordTTL ELSE ovhDefaultTTL))]
      deletes == [k \in 1..Len(paired.oldRecords) |->
                   ovhChange(ovhDelete, paired.oldRecords[k])]
  IN paired.changes \o creates \o deletes

\* The second loop, over the keys of oldEndpointByTypeAndName in the order
\* `order` (Go leaves the order of a map's keys open).  A key without a new
\* endpoint reads Targets through a nil pointer: the function panics and
\* returns nothing.
RECURSIVE UpdateLoop(_, _, _, _, _, _)
UpdateLoop(order, k, newEndpointByTypeAndName, zone, existingRecords, changes) ==
  IF k > Len(order) THEN [changes |-> changes, panicked |-> FALSE]
  ELSE IF order[k] \notin DOMAIN newEndpointByTypeAndName
  THEN [changes |-> <<>>, panicked |-> TRUE]
  ELSE UpdateLoop(order, k + 1, newEndpointByTypeAndName, zone, existingRecords,
         changes \o UpdateGroup(order[k], newEndpointByTypeAndName[order[k]],
                                zone, existingRecords))

\* The orders in which the keys of a map can be visited.
KeyOrders(keys) ==
  {order \in [1..Cardinality(keys) -> keys] :
     \A i, j \in 1..Cardinality(keys) : i # j => order[i] # order[j]}

newOvhChangeUpdate(endpointsOld, endpointsNew, zone, existingRecords, order) ==
  UpdateLoop(order, 1, ByTypeAndName(endpointsNew, zone), zone,
             existingRecords, <<>>)

\* ------------------------------------------------------------------------
\* ovhGroupByNameAndType.

\* A key that leaves the zone out.
GroupKeyNoZone(r) == <<r.SubDomain, r.FieldType>>

\* The key r.Zone + "//" + r.SubDomain + "//" + r.FieldType of a record.
GroupKey(r) == <<r.Zone, r.SubDomain, r.FieldType>>

\* The endpoint of a group: the name, type and TTL of its first record, and
\* the targets of its records in their order.
GroupEndpoint(members) ==
  Endpoint(HostName(members[1].SubDomain, members[1].Zone),
           members[1].FieldType, members[1].TTL,
           [i \in 1..Len(members) |-> members[i].Target])

\* One endpoint per key of the map groups, the keys in the order `order`.
ovhGroupByNameAndType(records, order) ==
  [k \in 1..Len(order) |->
     GroupEndpoint(SelectSeq(records, LAMBDA r : GroupKey(r) = order[k]))]

\* ------------------------------------------------------------------------
\* The state of the provider, of the remote store and of the run in progress.

VARIABLES
  construction,      \* NewOVHProvider: its arguments and its error
  UseCache,          \* OVHProvider.UseCache
  cacheInstance,     \* zone -> the ovhSoa stored under zone+"#soa", or None
  lastRunRecords,    \* OVHProvider.lastRunRecords
  lastRunZones,      \* OVHProvider.lastRunZones
  storeRecords,      \* the store: zone -> the records of the zone
  serial,            \* the store: zone -> the SOA serial of the zone
  nextID,            \* the store: the id of the next record created
  pc,                \* "idle", "fetching" (Records), "applying" (ApplyChanges)
  runs,              \* calls of Records and ApplyChanges so far
  lastCall,          \* the call that returned last: "none", "Records",
                     \* "ApplyChanges"
  external,          \* changes made in the store by other actors so far
  crashed,           \* the process panicked
  failures,          \* calls the store failed of itself in this run
  takes,             \* scope -> apiRateLimiter.Take() calls in this run
  calls,             \* scope -> calls of the store's API in this run
  fetchCancel,       \* the context of the errgroup of zonesRecords is cancelled
  rpc,               \* zone -> where records() is
  served,            \* zone -> "none", "cache", "api": what records() sent
  soa,               \* zone -> the serial read into the local soa
  rtask,             \* zone -> record id -> "todo", "ok", "err"
  recCancel,         \* zone -> ctxErrGroup of records() is cancelled
  zch,               \* zone -> the records sent to the channel of records()
  chRecords,         \* the channel of zonesRecords: one list per zone
  recordsErr,        \* what the last Records returned: "none", "soft"
  found,             \* zone -> the snapshot records() found in the cache
  answer,            \* zone -> what the name server answered to records()
  apiErr,            \* zone -> the call of records() that failed first
  sent,              \* zone -> the list records() sent to zonesRecords
  requested,         \* ApplyChanges: the plan.Changes it was called with
  changesByZoneName, \* ApplyChanges: zone name -> the plan.Changes of the zone
  apCancel,          \* the context of the errgroup of ApplyChanges is cancelled
  zpc,               \* zone name -> where handleSingleZoneUpdate is
  zoneChanges,       \* zone name -> allChanges of handleSingleZoneUpdate
  cres,              \* zone name -> the result of each change of the zone
  zoneCancel,        \* zone name -> ctxErrGroup of the zone is cancelled
  zerr,              \* zone name -> what handleSingleZoneUpdate returns
  refreshed,         \* zone name -> the result of the publish call
  applyErr           \* what the last ApplyChanges returned: "none", "soft"

storeVars == <<storeRecords, serial, nextID, external>>
fetchVars == <<fetchCancel, rpc, served, soa, rtask, recCancel, zch, chRecords,
               recordsErr, found, answer, apiErr, sent>>
applyVars == <<requested, changesByZoneName, apCancel, zpc, zoneChanges, cres, zoneCancel,
               zerr, refreshed, applyErr>>

providerVars == <<construction, UseCache, cacheInstance, lastRunRecords, lastRunZones,
                  storeVars, pc, runs, lastCall, crashed, failures, takes,
                  calls, fetchVars, applyVars>>

\* ------------------------------------------------------------------------
\* The planning pass of handleSingleZoneUpdate, as a state machine: the
\* Create path, then the Delete path, then the Update path, each on the
\* endpoints of its list.

VARIABLES
  zoneName,          \* the zone the pass plans for
  snapshot,          \* the existing records handed to the pass
  existingRecords,   \* the working list the three paths hand on
  changes,           \* the plan.Changes of the zone
  allChanges,        \* the changes planned so far
  planStep,          \* "start", "created", "deleted", "planned", "panic",
                     \* "grouped", "roundtrip"
  grouped            \* what ovhGroupByNameAndType makes of the snapshot

planVars == <<zoneName, snapshot, existingRecords, changes, allChanges, planStep,
              grouped>>

\* The shapes of a stored record: in the planned zone two subdomains (one of
\* them the apex) with the targets T1 and T2, and a record of another zone
\* (ApplyChanges hands the records of every zone to each pass).
RecordShapes ==
  {ovhRecord(0, Z1, sub, type, target, ovhDefaultTTL) :
     sub \in {Www, Apex}, type \in RecordTypes, target \in {T1, T2}}
  \cup {ovhRecord(0, Z2, Www, type, T1, ovhDefaultTTL) : type \in RecordTypes}

\* Lists of at most MaxRecords records; the i-th has the id 9 + i, so that
\* ids are nonzero and distinct as those of the store are.
ExistingChoices ==
  {[i \in DOMAIN shapes |-> [shapes[i] EXCEPT !.ID = 9 + i]] :
     shapes \in SeqsUpTo(RecordShapes, MaxRecords)}

CreateChoices ==
  {<<>>} \cup
  {<<Endpoint(HostName(Www, Z1), "A", ttl, <<T3>>)>> : ttl \in EndpointTTLs}

DeleteChoices ==
  {<<>>}
  \cup {<<Endpoint(HostName(Www, Z1), "A", 0, targets)>> :
          targets \in NonEmptySeqsUpTo({T1, T2}, MaxTargets)}
  \cup {<<Endpoint(HostName(Www, Z1), "A", 0, <<t>>),
           Endpoint(HostName(Apex, Z1), "A", 0, <<u>>)>> : t, u \in {T1, T2}}

\* The old endpoint of an update: the code reads its name and type only.
OldEndpoint(sub) == Endpoint(HostName(sub, Z1), "A", 0, <<T1>>)

NewEndpoints(sub, ttls, n) ==
  {Endpoint(HostName(sub, Z1), "A", ttl, targets) :
     ttl \in ttls, targets \in NonEmptySeqsUpTo({T1, T2, T3}, n)}

\* Pairs <<UpdateOld, UpdateNew>>: no update, one group, two groups, and two
\* old endpoints of which only one has a new endpoint.
UpdateChoices ==
  {<<(<<>>), (<<>>)>>}
  \cup {<<(<<OldEndpoint(Www)>>), (<<new>>)>> :
          new \in NewEndpoints(Www, EndpointTTLs, MaxTargets)}
  \cup {<<(<<OldEndpoint(Apex)>>), (<<new>>)>> :
          new \in NewEndpoints(Apex, {0}, 1)}
  \cup {<<(<<OldEndpoint(Www), OldEndpoint(Apex)>>), (<<new, other>>)>> :
          new \in NewEndpoints(Www, {0}, MaxTargets),
          other \in NewEndpoints(Apex, {0}, 1)}
  \cup {<<(<<OldEndpoint(Www), OldEndpoint(Apex)>>), (<<new>>)>> :
          new \in NewEndpoints(Www, {0}, MaxTargets)}

PlanInit ==
  /\ zoneName = Z1
  /\ snapshot \in ExistingChoices
  /\ existingRecords = snapshot
  /\ changes = Changes(<<>>, <<>>, <<>>, <<>>)
  /\ allChanges = <<>>
  /\ planStep = "start"
  /\ grouped = <<>>

\* ovh.go:194-195
PlanCreate ==
  /\ planStep = "start"
  /\ \E create \in CreateChoices :
       LET out == newOvhChangeCreateDelete(ovhCreate, create, zoneName,
                                           existingRecords)
       IN /\ changes' = [changes EXCEPT !.Create = create]
          /\ allChanges' = allChanges \o out.changes
          /\ existingRecords' = out.records
  /\ planStep' = "created"
  /\ UNCHANGED <<providerVars, zoneName, snapshot, grouped>>

\* ovh.go:196-197
PlanDelete ==
  /\ planStep = "created"
  /\ \E delete \in DeleteChoices :
       LET out == newOvhChangeCreateDelete(ovhDelete, delete, zoneName,
                                           existingRecords)
       IN /\ changes' = [changes EXCEPT !.Delete = delete]
          /\ allChanges' = allChanges \o out.changes
          /\ existingRecords' = out.records
  /\ planStep' = "deleted"
  /\ UNCHANGED <<providerVars, zoneName, snapshot, grouped>>

\* ovh.go:199-200
PlanUpdate ==
  /\ planStep = "deleted"
  /\ \E update \in UpdateChoices :
       \E order \in KeyOrders(DOMAIN ByTypeAndName(update[1], zoneName)) :
         LET out == newOvhChangeUpdate(update[1], update[2], zoneName,
                                       existingRecords, order)
         IN /\ changes' = [changes EXCEPT !.UpdateOld = update[1],
                                           !.UpdateNew = update[2]]
            /\ allChanges' = allChanges \o out.changes
            /\ planStep' = IF out.panicked THEN "panic" ELSE "planned"
  /\ UNCHANGED <<providerVars, zoneName, snapshot, existingRecords, grouped>>

\* Records (ovh.go:146): the endpoints of the records, the groups visited in
\* one of the orders of the map.
PlanGroup ==
  /\ planStep = "start"
  /\ \E order \in KeyOrders({GroupKey(snapshot[i]) : i \in 1..Len(snapshot)}) :
       grouped' = ovhGroupByNameAndType(snapshot, order)
  /\ planStep' = "grouped"
  /\ UNCHANGED <<providerVars, zoneName, snapshot, existingRecords, changes,
                 allChanges>>


\* ------------------------------------------------------------------------
\* The provider, the remote store and the authoritative name server.

Zones == {Z1, Z2}

\* The answer of GET /domain/zone, every zone passing the domain filter.
ZoneList == <<Z1, Z2>>

\* The zone name "": what FindZone answers when no zone matches.
NoZone == <<>>

\* The scopes calls and tokens are counted for: a zone task, or the call
\* itself (the listing of the zones).
Scopes == Zones \cup {NoZone}

\* provider.SupportedRecordType
SupportedRecordType(type) == type \in {"A", "AAAA", "CNAME", "TXT", "SRV", "NS"}

None == [absent |-> TRUE]

InitialStore ==
  [z \in Zones |->
     IF z = Z1
     THEN {ovhRecord(10, Z1, Www, "A", T1, ovhDefaultTTL),
           ovhRecord(11, Z1, Www, "A", T2, ovhDefaultTTL)}
     ELSE {ovhRecord(20, Z2, Www, "A", T1, ovhDefaultTTL),
           ovhRecord(21, Z2, Apex, "SOA", "ns", ovhDefaultTTL)}]

RecordIDs(z) == {r.ID : r \in storeRecords[z]}

StoredRecord(z, id) == CHOOSE r \in storeRecords[z] : r.ID = id

RECURSIVE Flatten(_)
Flatten(lists) ==
  IF lists = <<>> THEN <<>> ELSE Head(lists) \o Flatten(Tail(lists))

\* The outcomes of a call of the store's API: an error when the call cannot
\* succeed (its context is cancelled, or what it names is not in the store),
\* else the store answers, or fails of itself (at most MaxFailures times in
\* a run).
CallOutcomes(doomed) ==
  IF doomed THEN {FALSE}
  ELSE IF failures < MaxFailures THEN BOOLEAN ELSE {TRUE}

Spend(ok, doomed) ==
  failures' = IF ~ok /\ ~doomed THEN failures + 1 ELSE failures

\* What the name server answers to the SOA question about a zone: an error
\* (a timeout), an answer whose first record is no SOA, an empty answer
\* section, or the SOA of the zone.  With a cancelled context
\* ExchangeContext returns an error.
NoAnswer == [kind |-> "none", Serial |-> 0]

DnsAnswers(z, cancelled) ==
  IF cancelled THEN {[kind |-> "error", Serial |-> 0]}
  ELSE {[kind |-> k, Serial |-> 0] : k \in {"error", "malformed", "noanswer"}}
       \cup {[kind |-> "soa", Serial |-> serial[z]]}

\* Variants of the comparison of the serials: the inverted one, and the one
\* that takes any SOA for the cached one.
CacheIsValidInverted(in, cachedSoa) ==
  in.kind = "soa" /\ in.Serial # cachedSoa.Serial

CacheIsValidAnySerial(in, cachedSoa) ==
  in.kind = "soa"

\* records (ovh.go:365-367): the exchange made no error, the first answer is
\* a SOA and its serial is the one of the cached snapshot.
CacheIsValid(in, cachedSoa) ==
  in.kind = "soa" /\ in.Serial = cachedSoa.Serial

\* An invalidation that leaves the entry of the zone in the cache.
invalidateCacheKept(cache, zone) == cache

\* invalidateCache
invalidateCache(cache, zone) ==
  [z \in DOMAIN cache |-> IF z = zone THEN None ELSE cache[z]]

\* cache.Add: stores the item unless the key is there
cacheAdd(cache, zone, item) ==
  [z \in DOMAIN cache |-> IF z = zone /\ cache[z] = None THEN item ELSE cache[z]]

Take(scope) == takes' = [takes EXCEPT ![scope] = @ + 1]

\* The tasks, channels and contexts of a run are gone when the run returns.
NoFetch ==
  /\ fetchCancel' = FALSE
  /\ rpc' = [z \in Zones |-> "off"]
  /\ served' = [z \in Zones |-> "none"]
  /\ soa' = [z \in Zones |-> 0]
  /\ rtask' = [z \in Zones |-> <<>>]
  /\ recCancel' = [z \in Zones |-> FALSE]
  /\ zch' = [z \in Zones |-> <<>>]
  /\ chRecords' = <<>>
  /\ found' = [z \in Zones |-> None]
  /\ answer' = [z \in Zones |-> NoAnswer]
  /\ apiErr' = [z \in Zones |-> "none"]
  /\ sent' = [z \in Zones |-> <<>>]

NoApply ==
  /\ requested' = Changes(<<>>, <<>>, <<>>, <<>>)
  /\ changesByZoneName' = <<>>
  /\ apCancel' = FALSE
  /\ zpc' = [z \in Scopes |-> "off"]
  /\ zoneChanges' = [z \in Scopes |-> <<>>]
  /\ cres' = [z \in Scopes |-> <<>>]
  /\ zoneCancel' = [z \in Scopes |-> FALSE]
  /\ zerr' = [z \in Scopes |-> "none"]
  /\ refreshed' = [z \in Scopes |-> "none"]

NoCount ==
  /\ failures' = 0
  /\ takes' = [s \in Scopes |-> 0]
  /\ calls' = [s \in Scopes |-> 0]

\* The store as it is at first, and no run in progress.
RunInit ==
  /\ lastRunRecords = <<>>
  /\ lastRunZones = <<>>
  /\ storeRecords = InitialStore
  /\ serial = [z \in Zones |-> 1]
  /\ nextID = 30
  /\ runs = 0
  /\ lastCall = "none"
  /\ external = 0
  /\ crashed = FALSE
  /\ failures = 0
  /\ takes = [s \in Scopes |-> 0]
  /\ calls = [s \in Scopes |-> 0]
  /\ fetchCancel = FALSE
  /\ rpc = [z \in Zones |-> "off"]
  /\ served = [z \in Zones |-> "none"]
  /\ soa = [z \in Zones |-> 0]
  /\ rtask = [z \in Zones |-> <<>>]
  /\ recCancel = [z \in Zones |-> FALSE]
  /\ zch = [z \in Zones |-> <<>>]
  /\ chRecords = <<>>
  /\ recordsErr = "none"
  /\ found = [z \in Zones |-> None]
  /\ answer = [z \in Zones |-> NoAnswer]
  /\ apiErr = [z \in Zones |-> "none"]
  /\ sent = [z \in Zones |-> <<>>]
  /\ requested = Changes(<<>>, <<>>, <<>>, <<>>)
  /\ changesByZoneName = <<>>
  /\ apCancel = FALSE
  /\ zpc = [z \in Scopes |-> "off"]
  /\ zoneChanges = [z \in Scopes |-> <<>>]
  /\ cres = [z \in Scopes |-> <<>>]
  /\ zoneCancel = [z \in Scopes |-> FALSE]
  /\ zerr = [z \in Scopes |-> "none"]
  /\ refreshed = [z \in Scopes |-> "none"]
  /\ applyErr = "none"

\* The provider NewOVHProvider returns (ovh.go:127-135), with the store and
\* no run in progress.
ProviderInit ==
  /\ construction = [endpointValid |-> TRUE, dryRun |-> FALSE, err |-> "none"]
  /\ UseCache = TRUE
  /\ cacheInstance = [z \in Zones |-> None]
  /\ pc = "idle"
  /\ RunInit

\* Before NewOVHProvider there is no provider: the store only.
NotBuilt == [endpointValid |-> FALSE, dryRun |-> FALSE, err |-> "unbuilt"]

\* A constructor without the test of dryRun.
NewErrorAnyMode(endpointValid, dryRun) ==
  IF ~endpointValid THEN "endpoint" ELSE "none"

\* The error of NewOVHProvider (ovh.go:116-126): the one of
\* ovh.NewEndpointClient, else ErrNoDryRun with dryRun, else none.
NewError(endpointValid, dryRun) ==
  IF ~endpointValid THEN "endpoint"
  ELSE IF dryRun THEN "ErrNoDryRun" ELSE "none"

\* NewOVHProvider (ovh.go:115-136): the client of the endpoint first, whose
\* error is returned; then ErrNoDryRun with dryRun; else the provider, with
\* UseCache true and a new cache.
NewOVHProvider ==
  /\ pc = "new"
  /\ \E endpointValid \in BOOLEAN, dryRun \in BOOLEAN :
       LET err == NewError(endpointValid, dryRun)
       IN /\ construction' = [endpointValid |-> endpointValid,
                              dryRun |-> dryRun, err |-> err]
          /\ pc' = IF err = "none" THEN "idle" ELSE "noprovider"
  /\ UseCache' = TRUE
  /\ cacheInstance' = [z \in Zones |-> None]
  /\ UNCHANGED <<planVars, lastRunRecords, lastRunZones, storeVars, runs, lastCall,
                 crashed, failures, takes, calls, fetchVars, applyVars>>

\* The caller turns the cache off before the first run (OVHProvider.UseCache
\* is a field it may set, ovh.go:66-72).
SetUseCache ==
  /\ pc = "idle" /\ runs = 0 /\ UseCache
  /\ UseCache' = FALSE
  /\ UNCHANGED <<planVars, construction, cacheInstance, lastRunRecords,
                 lastRunZones, storeVars, pc, runs, lastCall, crashed, failures, takes,
                 calls, fetchVars, applyVars>>

\* Records -> zonesRecords -> zones (ovh.go:139-140, 304-316, 327-343): a
\* token, the listing of the zones, and one records() task per zone.
RecordsStart ==
  /\ pc = "idle" /\ ~crashed /\ runs < MaxRuns
  /\ runs' = runs + 1
  /\ \E ok \in BOOLEAN :
       IF ok
       THEN /\ pc' = "fetching"
            /\ takes' = [s \in Scopes |-> IF s = NoZone THEN 1 ELSE 0]
            /\ calls' = [s \in Scopes |-> IF s = NoZone THEN 1 ELSE 0]
            /\ failures' = 0
            /\ rpc' = [z \in Zones |-> "start"]
            /\ recordsErr' = "none"
            /\ UNCHANGED <<lastCall, fetchCancel, served, soa, rtask,
                           recCancel, zch, chRecords, found, answer, apiErr,
                           sent>>
       ELSE /\ pc' = "idle"
            /\ recordsErr' = "soft"
            /\ lastCall' = "Records"
            /\ NoFetch /\ NoCount
  /\ UNCHANGED <<planVars, applyVars, UseCache, construction, cacheInstance, lastRunRecords,
                 lastRunZones, storeVars, crashed>>

\* records, the cache (ovh.go:356-377): with a snapshot in the cache the name
\* server is asked for the SOA; the same serial sends the cached records.
RecordsValidate(z) ==
  /\ pc = "fetching" /\ ~crashed /\ rpc[z] = "start"
  /\ found' = [found EXCEPT ![z] = IF UseCache THEN cacheInstance[z] ELSE None]
  /\ IF UseCache /\ cacheInstance[z] # None
     THEN \E in \in DnsAnswers(z, fetchCancel) :
            /\ answer' = [answer EXCEPT ![z] = in]
            /\ IF in.kind = "noanswer"
               THEN \* in.Answer[0] of an empty slice
                    /\ crashed' = TRUE
                    /\ UNCHANGED <<cacheInstance, rpc, served, chRecords, sent>>
               ELSE IF CacheIsValid(in, cacheInstance[z])
               THEN /\ chRecords' = Append(chRecords, cacheInstance[z].records)
                    /\ sent' = [sent EXCEPT ![z] = cacheInstance[z].records]
                    /\ rpc' = [rpc EXCEPT ![z] = "done"]
                    /\ served' = [served EXCEPT ![z] = "cache"]
                    /\ UNCHANGED <<cacheInstance, crashed>>
               ELSE /\ cacheInstance' = invalidateCache(cacheInstance, z)
                    /\ rpc' = [rpc EXCEPT ![z] = "api"]
                    /\ UNCHANGED <<served, chRecords, sent, crashed>>
     ELSE /\ rpc' = [rpc EXCEPT ![z] = "api"]
          /\ UNCHANGED <<cacheInstance, served, chRecords, sent, crashed, answer>>
  /\ UNCHANGED <<failures, planVars, applyVars, UseCache, construction, lastRunRecords,
                 lastRunZones, storeVars, pc, runs, lastCall, takes, calls, fetchCancel,
                 soa, rtask, recCancel, zch, recordsErr, apiErr>>

\* records (ovh.go:381-387): one token, then the SOA of the zone when the
\* cache is in use.
RecordsSoa(z) ==
  /\ pc = "fetching" /\ ~crashed /\ rpc[z] = "api"
  /\ Take(z)
  /\ IF UseCache
     THEN /\ calls' = [calls EXCEPT ![z] = @ + 1]
          /\ \E ok \in CallOutcomes(fetchCancel) :
               /\ Spend(ok, fetchCancel)
               /\ IF ok
                  THEN /\ soa' = [soa EXCEPT ![z] = serial[z]]
                       /\ rpc' = [rpc EXCEPT ![z] = "list"]
                       /\ UNCHANGED <<fetchCancel, apiErr>>
                  ELSE /\ rpc' = [rpc EXCEPT ![z] = "failed"]
                       /\ apiErr' = [apiErr EXCEPT ![z] = "soa"]
                       /\ fetchCancel' = TRUE
                       /\ UNCHANGED soa
     ELSE /\ rpc' = [rpc EXCEPT ![z] = "list"]
          /\ UNCHANGED <<calls, soa, fetchCancel, failures, apiErr>>
  /\ UNCHANGED <<planVars, applyVars, UseCache, construction, cacheInstance, lastRunRecords,
                 lastRunZones, storeVars, pc, runs, lastCall, crashed, served, rtask,
                 recCancel, zch, chRecords, recordsErr, found, answer, sent>>

\* records (ovh.go:389-396): the ids of the records of the zone, and one
\* record() task per id.
RecordsList(z) ==
  /\ pc = "fetching" /\ ~crashed /\ rpc[z] = "list"
  /\ calls' = [calls EXCEPT ![z] = @ + 1]
  /\ \E ok \in CallOutcomes(fetchCancel) :
       /\ Spend(ok, fetchCancel)
       /\ IF ok
          THEN /\ rtask' = [rtask EXCEPT ![z] = [id \in RecordIDs(z) |-> "todo"]]
               /\ rpc' = [rpc EXCEPT ![z] = "recs"]
               /\ UNCHANGED <<fetchCancel, apiErr>>
          ELSE /\ rpc' = [rpc EXCEPT ![z] = "failed"]
               /\ apiErr' = [apiErr EXCEPT ![z] = "list"]
               /\ fetchCancel' = TRUE
               /\ UNCHANGED rtask
  /\ UNCHANGED <<planVars, applyVars, UseCache, construction, cacheInstance, lastRunRecords,
                 lastRunZones, storeVars, pc, runs, lastCall, crashed, takes, served, soa,
                 recCancel, zch, chRecords, recordsErr, found, answer, sent>>

\* record (ovh.go:414-428): a token, the record by its id; a record of a
\* supported type goes to the channel.  The call fails when the record is
\* gone from the store.
RecordGet(z, id) ==
  /\ pc = "fetching" /\ ~crashed /\ rpc[z] = "recs"
  /\ id \in DOMAIN rtask[z] /\ rtask[z][id] = "todo"
  /\ Take(z)
  /\ calls' = [calls EXCEPT ![z] = @ + 1]
  /\ LET doomed == fetchCancel \/ recCancel[z] \/ id \notin RecordIDs(z)
     IN \E ok \in CallOutcomes(doomed) :
          /\ Spend(ok, doomed)
          /\ IF ok
             THEN /\ rtask' = [rtask EXCEPT ![z][id] = "ok"]
                  /\ zch' = [zch EXCEPT ![z] =
                               IF SupportedRecordType(StoredRecord(z, id).FieldType)
                               THEN Append(@, StoredRecord(z, id)) ELSE @]
                  /\ UNCHANGED <<recCancel, apiErr>>
             ELSE /\ rtask' = [rtask EXCEPT ![z][id] = "err"]
                  /\ apiErr' = [apiErr EXCEPT ![z] = "get"]
                  /\ recCancel' = [recCancel EXCEPT ![z] = TRUE]
                  /\ UNCHANGED zch
  /\ UNCHANGED <<planVars, applyVars, UseCache, construction, cacheInstance, lastRunRecords,
                 lastRunZones, storeVars, pc, runs, lastCall, crashed, fetchCancel, rpc,
                 served, soa, chRecords, recordsErr, found, answer, sent>>

\* A snapshot that carries the serial the store has when the records are in.
SnapshotFreshSerial(z) == [Serial |-> serial[z], records |-> zch[z]]

\* records (ovh.go:382-384, 406): the snapshot is the soa read before the
\* listing, with the records fetched since.
Snapshot(z) == [Serial |-> soa[z], records |-> zch[z]]

\* A join that drops the errors of the record() tasks.
WaitErrorDropped(tasks) == FALSE

\* eg.Wait() of records (ovh.go:397): an error when a record() task made one.
WaitError(tasks) == \E id \in DOMAIN tasks : tasks[id] = "err"

\* records (ovh.go:397-411): the join of the record() tasks; an error ends
\* records(), else the snapshot is added to the cache and the records sent.
RecordsJoin(z) ==
  /\ pc = "fetching" /\ ~crashed /\ rpc[z] = "recs"
  /\ \A id \in DOMAIN rtask[z] : rtask[z][id] # "todo"
  /\ IF WaitError(rtask[z])
     THEN /\ rpc' = [rpc EXCEPT ![z] = "failed"]
          /\ fetchCancel' = TRUE
          /\ UNCHANGED <<cacheInstance, chRecords, served, sent>>
     ELSE /\ cacheInstance' =
               IF UseCache
               THEN cacheAdd(cacheInstance, z, Snapshot(z))
               ELSE cacheInstance
          /\ chRecords' = Append(chRecords, zch[z])
          /\ sent' = [sent EXCEPT ![z] = zch[z]]
          /\ rpc' = [rpc EXCEPT ![z] = "done"]
          /\ served' = [served EXCEPT ![z] = "api"]
          /\ UNCHANGED fetchCancel
  /\ UNCHANGED <<failures, planVars, applyVars, UseCache, construction, lastRunRecords,
                 lastRunZones, storeVars, pc, runs, lastCall, crashed, takes, calls, soa,
                 rtask, recCancel, zch, recordsErr, found, answer, apiErr>>

\* zonesRecords and Records (ovh.go:317-324, 141-148): the join of the
\* records() tasks; an error is returned as a soft error, else the records
\* and the zones are kept for ApplyChanges.
RecordsReturn ==
  /\ pc = "fetching" /\ ~crashed
  /\ \A z \in Zones : rpc[z] \in {"done", "failed"}
  /\ IF \E z \in Zones : rpc[z] = "failed"
     THEN /\ recordsErr' = "soft"
          /\ UNCHANGED <<lastRunRecords, lastRunZones>>
     ELSE /\ recordsErr' = "none"
          /\ lastRunRecords' = Flatten(chRecords)
          /\ lastRunZones' = ZoneList
  /\ pc' = "idle"
  /\ lastCall' = "Records"
  /\ NoFetch /\ NoCount
  /\ UNCHANGED <<planVars, applyVars, UseCache, construction, cacheInstance,
                 storeVars, runs, crashed>>

\* Another actor of the store changes a zone: the target of a record, and
\* with it the serial of the zone.
ExternalChange(z) ==
  /\ pc # "applying" /\ ~crashed /\ external < MaxExternal
  /\ external' = external + 1
  /\ serial' = [serial EXCEPT ![z] = @ + 1]
  /\ \E r \in storeRecords[z] :
       /\ SupportedRecordType(r.FieldType)
       /\ storeRecords' = [storeRecords EXCEPT ![z] =
                             (@ \ {r}) \cup {[r EXCEPT !.Target = T3]}]
  /\ UNCHANGED <<failures, planVars, applyVars, UseCache, construction, cacheInstance, lastRunRecords, lastRunZones, nextID,
                 pc, runs, lastCall, crashed, takes, calls, fetchVars>>

\* ------------------------------------------------------------------------
\* ApplyChanges.

\* provider.ZoneIDName.FindZone: the longest zone that is the host name or a
\* suffix of it after a dot; the empty name when there is none.
FindZone(zones, hostname) ==
  LET suitable == {zones[i] : i \in {j \in 1..Len(zones) :
                     /\ Len(hostname) >= Len(zones[j])
                     /\ SubSeq(hostname, Len(hostname) - Len(zones[j]) + 1,
                               Len(hostname)) = zones[j]}}
  IN IF suitable = {} THEN NoZone
     ELSE CHOOSE z \in suitable : \A y \in suitable : Len(y) <= Len(z)

\* The endpoints of a list that FindZone gives to the zone name.
OfZone(zones, endpoints, name) ==
  SelectSeq(endpoints, LAMBDA e : FindZone(zones, e.DNSName) = name)

planChangesByZoneName(zones, chg) ==
  LET all == chg.Delete \o chg.Create \o chg.UpdateOld \o chg.UpdateNew
      names == {FindZone(zones, all[i].DNSName) : i \in 1..Len(all)}
  IN [name \in names |->
        Changes(OfZone(zones, chg.Create, name), OfZone(zones, chg.Delete, name),
                OfZone(zones, chg.UpdateOld, name),
                OfZone(zones, chg.UpdateNew, name))]

\* ApplyChanges with the endpoints of Records as its Delete list (ovh.go:246,
\* 251 and 196-197): the endpoints planChangesByZoneName gives to the zone
\* go through the Delete path on the records they were made of.
PlanRoundTrip ==
  /\ planStep = "grouped"
  /\ LET byZone == planChangesByZoneName(ZoneList,
                                         Changes(<<>>, grouped, <<>>, <<>>))
         delete == IF zoneName \in DOMAIN byZone THEN byZone[zoneName].Delete
                   ELSE <<>>
         out == newOvhChangeCreateDelete(ovhDelete, delete, zoneName,
                                         existingRecords)
     IN /\ changes' = [changes EXCEPT !.Delete = delete]
        /\ allChanges' = out.changes
        /\ existingRecords' = out.records
  /\ planStep' = "roundtrip"
  /\ UNCHANGED <<providerVars, zoneName, snapshot, grouped>>

PlanNext ==
  PlanCreate \/ PlanDelete \/ PlanUpdate \/ PlanGroup \/ PlanRoundTrip

\* What a caller asks for one zone: nothing, a new name, the deletion of the
\* target T1 of www, or the update of www to the target T3.
ZoneRequests(z) ==
  {Changes(<<>>, <<>>, <<>>, <<>>),
   Changes(<<Endpoint(HostName(<<"api">>, z), "A", 0, <<T3>>)>>, <<>>, <<>>, <<>>),
   Changes(<<>>, <<Endpoint(HostName(Www, z), "A", 0, <<T1>>)>>, <<>>, <<>>),
   Changes(<<>>, <<>>, <<Endpoint(HostName(Www, z), "A", 0, <<T1>>)>>,
           <<Endpoint(HostName(Www, z), "A", 0, <<T3>>)>>)}

\* A host name under none of the zones of the store.
Elsewhere == <<"www", "c", "com">>

\* The requests of a caller: any request for Z1 alone, the requests for both
\* zones that create or delete, and a new name under no zone of the store.
ApplyRequests ==
  ZoneRequests(Z1) \cup
  {Changes(<<Endpoint(Elsewhere, "A", 0, <<T3>>)>>, <<>>, <<>>, <<>>)} \cup
  {Changes(a.Create \o b.Create, a.Delete \o b.Delete,
           a.UpdateOld \o b.UpdateOld, a.UpdateNew \o b.UpdateNew) :
     a \in {r \in ZoneRequests(Z1) : r.UpdateOld = <<>>},
     b \in {r \in ZoneRequests(Z2) : r.UpdateOld = <<>>}}

\* ApplyChanges (ovh.go:226-253): the zones and records of the last Records,
\* the changes by zone, and one handleSingleZoneUpdate task per zone name.
ApplyStart ==
  /\ pc = "idle" /\ ~crashed /\ runs < MaxRuns
  /\ runs' = runs + 1
  /\ pc' = "applying"
  /\ \E request \in ApplyRequests :
       /\ requested' = request
       /\ changesByZoneName' = planChangesByZoneName(lastRunZones, request)
       /\ zpc' = [z \in Scopes |->
                    IF z \in DOMAIN changesByZoneName' THEN "plan" ELSE "off"]
  /\ applyErr' = "none"
  /\ UNCHANGED <<planVars, fetchVars, UseCache, construction, cacheInstance,
                 lastRunRecords, lastRunZones, storeVars, lastCall, crashed,
                 failures, takes, calls, apCancel, zoneChanges, cres,
                 zoneCancel, zerr, refreshed>>

\* handleSingleZoneUpdate (ovh.go:191-210): the three paths of the planning
\* pass on the records of every zone, then one change task per change.
ZonePlan(z) ==
  /\ pc = "applying" /\ ~crashed /\ zpc[z] = "plan"
  /\ LET chg == changesByZoneName[z]
         created == newOvhChangeCreateDelete(ovhCreate, chg.Create, z,
                                             lastRunRecords)
         deleted == newOvhChangeCreateDelete(ovhDelete, chg.Delete, z,
                                             created.records)
     IN \E order \in KeyOrders(DOMAIN ByTypeAndName(chg.UpdateOld, z)) :
          LET updated == newOvhChangeUpdate(chg.UpdateOld, chg.UpdateNew, z,
                                            deleted.records, order)
              planned == created.changes \o deleted.changes \o updated.changes
          IN IF updated.panicked
             THEN /\ crashed' = TRUE
                  /\ UNCHANGED <<zpc, zoneChanges, cres>>
             ELSE /\ zoneChanges' = [zoneChanges EXCEPT ![z] = planned]
                  /\ cres' = [cres EXCEPT ![z] = [i \in DOMAIN planned |-> "todo"]]
                  /\ zpc' = [zpc EXCEPT ![z] = "run"]
                  /\ UNCHANGED crashed
  /\ UNCHANGED <<failures, planVars, fetchVars, UseCache, construction, cacheInstance, lastRunRecords,
                 lastRunZones, storeVars, pc, runs, lastCall, takes, calls,
                 requested,
                 changesByZoneName, apCancel, zoneCancel, zerr, refreshed,
                 applyErr>>

\* The store can carry out the call of a change: the zone is one of the
\* store, and a record to update or delete is in it.
Applicable(c) ==
  /\ c.Zone \in Zones
  /\ c.Action \in {ovhDelete, ovhUpdate} => c.ID \in RecordIDs(c.Zone)

\* The records of the store after the call of a change.
StoreAfter(c) ==
  [storeRecords EXCEPT ![c.Zone] =
     IF c.Action = ovhCreate
     THEN @ \cup {ovhRecord(nextID, c.Zone, c.SubDomain, c.FieldType, c.Target,
                            c.TTL)}
     ELSE IF c.Action = ovhDelete
     THEN @ \ {StoredRecord(c.Zone, c.ID)}
     ELSE (@ \ {StoredRecord(c.Zone, c.ID)})
          \cup {[StoredRecord(c.Zone, c.ID) EXCEPT
                   !.SubDomain = c.SubDomain, !.TTL = c.TTL,
                   !.Target = c.Target]}]

\* The error a call returns with the contexts as they are: the context of
\* the zone cancelled by a change of the zone, the one of ApplyChanges by
\* another zone, or the store failing.
CallError(z) ==
  IF zoneCancel[z] THEN "canceled"
  ELSE IF apCancel THEN "canceledByOther"
  ELSE "err"

\* A change that never looks at the record id.
RecordToMutateNotFoundNever(c) == FALSE

\* change (ovh.go:285-287, 291-293): a Delete or an Update without a record
\* id returns ErrRecordToMutateNotFound.
RecordToMutateNotFound(c) ==
  c.Action \in {ovhDelete, ovhUpdate} /\ c.ID = 0

\* change (ovh.go:276-298): a token, then the call of the store; an Update
\* or a Delete without a record id returns ErrRecordToMutateNotFound.  The
\* first error of a zone is the one its errgroup keeps, and it cancels the
\* context of the zone.
ChangeCall(z, i) ==
  /\ pc = "applying" /\ ~crashed /\ zpc[z] = "run"
  /\ i \in DOMAIN cres[z] /\ cres[z][i] = "todo"
  /\ Take(z)
  /\ LET c == zoneChanges[z][i]
         failed(e) ==
           /\ cres' = [cres EXCEPT ![z][i] = e]
           /\ zoneCancel' = [zoneCancel EXCEPT ![z] = TRUE]
           /\ zerr' = [zerr EXCEPT ![z] = IF @ = "none" THEN e ELSE @]
           /\ UNCHANGED <<storeRecords, nextID>>
         doomed == zoneCancel[z] \/ apCancel \/ ~Applicable(c)
     IN IF RecordToMutateNotFound(c)
        THEN failed("notfound") /\ UNCHANGED <<calls, failures>>
        ELSE /\ calls' = [calls EXCEPT ![z] = @ + 1]
             /\ \E ok \in CallOutcomes(doomed) :
                  /\ Spend(ok, doomed)
                  /\ IF ok
                     THEN /\ cres' = [cres EXCEPT ![z][i] = "ok"]
                          /\ storeRecords' = StoreAfter(c)
                          /\ nextID' = IF c.Action = ovhCreate THEN nextID + 1
                                       ELSE nextID
                          /\ UNCHANGED <<zoneCancel, zerr>>
                     ELSE failed(CallError(z))
  /\ UNCHANGED <<planVars, fetchVars, UseCache, construction, cacheInstance, lastRunRecords,
                 lastRunZones, serial, external, pc, runs, lastCall, crashed,
                 requested,
                 changesByZoneName, apCancel, zpc, zoneChanges, refreshed,
                 applyErr>>

\* A join that does not wait for the change tasks.
WaitChangesEarly(results) == TRUE

\* eg.Wait() of handleSingleZoneUpdate (ovh.go:212): every change task of the
\* zone has returned.
WaitChanges(results) == \A i \in DOMAIN results : results[i] # "todo"

\* handleSingleZoneUpdate (ovh.go:212-222) and the first line of refresh
\* (ovh.go:267): the join of the change tasks, and the cache of the zone
\* invalidated; with an error the task returns it, which cancels the context
\* of ApplyChanges.
ZoneJoin(z) ==
  /\ pc = "applying" /\ ~crashed /\ zpc[z] = "run"
  /\ WaitChanges(cres[z])
  /\ cacheInstance' = invalidateCache(cacheInstance, z)
  /\ IF zerr[z] = "none"
     THEN /\ zpc' = [zpc EXCEPT ![z] = "refresh"]
          /\ UNCHANGED apCancel
     ELSE /\ zpc' = [zpc EXCEPT ![z] = "done"]
          /\ apCancel' = TRUE
  /\ UNCHANGED <<failures, planVars, fetchVars, UseCache, construction, lastRunRecords, lastRunZones,
                 storeVars, pc, runs, lastCall, crashed, takes, calls, requested,
                 changesByZoneName,
                 zoneChanges, cres, zoneCancel, zerr, refreshed, applyErr>>

\* refresh (ovh.go:269-273): a token and the publish call, made with the
\* context of ApplyChanges; a published zone has a new serial.
ZoneRefresh(z) ==
  /\ pc = "applying" /\ ~crashed /\ zpc[z] = "refresh"
  /\ Take(z)
  /\ calls' = [calls EXCEPT ![z] = @ + 1]
  /\ zpc' = [zpc EXCEPT ![z] = "done"]
  /\ \E ok \in CallOutcomes(apCancel \/ z \notin Zones) :
       /\ Spend(ok, apCancel \/ z \notin Zones)
       /\ IF ok
          THEN /\ serial' = [serial EXCEPT ![z] = @ + 1]
               /\ refreshed' = [refreshed EXCEPT ![z] = "ok"]
               /\ UNCHANGED <<zerr, apCancel>>
          ELSE /\ refreshed' = [refreshed EXCEPT ![z] =
                                  IF apCancel THEN "canceledByOther" ELSE "err"]
               /\ zerr' = [zerr EXCEPT ![z] = refreshed'[z]]
               /\ apCancel' = TRUE
               /\ UNCHANGED serial
  /\ UNCHANGED <<planVars, fetchVars, UseCache, construction, cacheInstance, lastRunRecords,
                 lastRunZones, storeRecords, nextID, external, pc, runs, lastCall, crashed,
                 requested,
                 changesByZoneName, zoneChanges, cres, zoneCancel, applyErr>>

\* A join of the zone tasks that drops their errors.
WaitZonesDropped(errs) == FALSE

\* eg.Wait() of ApplyChanges (ovh.go:255): an error when a zone task
\* returned one.
WaitZones(errs) == \E z \in DOMAIN errs : errs[z] # "none"

\* A return that leaves the list of the last Records as it is.
lastRunKept(list) == list

\* The deferred function of ApplyChanges (ovh.go:228-231): an empty list for
\* lastRunRecords and for lastRunZones.
lastRunAfterApply(list) == <<>>

\* ApplyChanges (ovh.go:255-259, 228-231): the join of the zone tasks, a soft
\* error when one of them failed, and the records and zones of the last
\* Records dropped.
ApplyReturn ==
  /\ pc = "applying" /\ ~crashed
  /\ \A z \in Scopes : zpc[z] \in {"off", "done"}
  /\ applyErr' = IF WaitZones(zerr) THEN "soft" ELSE "none"
  /\ lastRunRecords' = lastRunAfterApply(lastRunRecords)
  /\ lastRunZones' = lastRunAfterApply(lastRunZones)
  /\ pc' = "idle"
  /\ lastCall' = "ApplyChanges"
  /\ NoApply /\ NoCount
  /\ UNCHANGED <<planVars, fetchVars, UseCache, construction, cacheInstance,
                 storeVars, runs, crashed>>

ProviderNext ==
  \/ NewOVHProvider
  \/ SetUseCache
  \/ RecordsStart
  \/ \E z \in Zones : RecordsValidate(z)
  \/ \E z \in Zones : RecordsSoa(z)
  \/ \E z \in Zones : RecordsList(z)
  \/ \E z \in Zones : \E id \in DOMAIN rtask[z] : RecordGet(z, id)
  \/ \E z \in Zones : RecordsJoin(z)
  \/ RecordsReturn
  \/ \E z \in Zones : ExternalChange(z)
  \/ ApplyStart
  \/ \E z \in Scopes : ZonePlan(z)
  \/ \E z \in Scopes : \E i \in DOMAIN cres[z] : ChangeCall(z, i)
  \/ \E z \in Scopes : ZoneJoin(z)
  \/ \E z \in Scopes : ZoneRefresh(z)
  \/ ApplyReturn

vars == <<planVars, providerVars>>

\* The planning pass on inputs drawn from the bounded sets.
InitPlan == PlanInit /\ ProviderInit

SpecPlan == InitPlan /\ [][PlanNext]_vars

\* The provider with its store.
Init ==
  /\ PlanInit /\ snapshot = <<>>
  /\ construction = NotBuilt
  /\ UseCache = FALSE
  /\ cacheInstance = [z \in Zones |-> None]
  /\ pc = "new"
  /\ RunInit

Next == ProviderNext

Spec == Init /\ [][Next]_vars

\* ------------------------------------------------------------------------
\* Properties of the planning pass.

\* The indexes of the changes of a list that carry the action a.
WithAction(list, a) == {i \in 1..Len(list) : list[i].Action = a}

\* The existing records of the group of an endpoint: same zone, same host
\* name, same type.
GroupRecords(e) ==
  SelectSeq(snapshot, LAMBDA r : /\ r.Zone = zoneName
                                 /\ HostName(r.SubDomain, r.Zone) = e.DNSName
                                 /\ r.FieldType = e.RecordType)

TargetsOf(records) == {records[i].Target : i \in 1..Len(records)}

\* The pass had an update of one group only, and nothing to create or delete.
OneGroupUpdate ==
  /\ planStep = "planned"
  /\ changes.Create = <<>> /\ changes.Delete = <<>>
  /\ Len(changes.UpdateOld) = 1 /\ Len(changes.UpdateNew) = 1

\* C2: the change list of one planning pass never holds two changes with the
\* same nonzero record id.
C2_NoRecordMatchedTwice ==
  planStep = "planned" =>
    \A i, j \in 1..Len(allChanges) :
      (i # j /\ allChanges[i].ID # 0) => allChanges[i].ID # allChanges[j].ID

\* C3: for a group with M existing records and N new targets the Update path
\* emits min(M,N) Updates, max(N-M,0) Creates and max(M-N,0) Deletes, and
\* each existing record of the group is in exactly one change.
C3_UpdateCountLaw ==
  OneGroupUpdate =>
    LET group == GroupRecords(changes.UpdateNew[1])
        M == Len(group)
        N == Len(changes.UpdateNew[1].Targets)
    IN /\ Cardinality(WithAction(allChanges, ovhUpdate)) = IF M < N THEN M ELSE N
       /\ Cardinality(WithAction(allChanges, ovhCreate)) = IF N > M THEN N - M ELSE 0
       /\ Cardinality(WithAction(allChanges, ovhDelete)) = IF M > N THEN M - N ELSE 0
       /\ \A k \in 1..M :
            Cardinality({i \in 1..Len(allChanges) : allChanges[i].ID = group[k].ID}) = 1

\* C4: when the existing records of every updated group already carry the
\* targets of its new endpoint and nothing is to be created or deleted, the
\* pass plans no change.
C4_Idempotence ==
  ( /\ planStep = "planned"
    /\ changes.Create = <<>> /\ changes.Delete = <<>>
    /\ Len(changes.UpdateOld) = Len(changes.UpdateNew)
    /\ \A k \in 1..Len(changes.UpdateNew) :
         LET e == changes.UpdateNew[k]
             group == GroupRecords(e)
         IN /\ Len(group) = Len(e.Targets)
            /\ TargetsOf(group) = {e.Targets[i] : i \in 1..Len(e.Targets)} )
  => allChanges = <<>>

\* C5: the Delete path never attaches one record id to two Delete changes:
\* two equal Delete targets planned against two existing records with those
\* values get two different nonzero ids.
C5_DeleteConsumesDistinctRecords ==
  planStep = "deleted" =>
    \A i, j \in WithAction(allChanges, ovhDelete) :
      i # j =>
        /\ allChanges[i].ID # 0 => allChanges[i].ID # allChanges[j].ID
        /\ ( /\ allChanges[i].Target = allChanges[j].Target
             /\ allChanges[i].SubDomain = allChanges[j].SubDomain
             /\ Cardinality({k \in 1..Len(snapshot) :
                   /\ snapshot[k].Zone = allChanges[i].Zone
                   /\ snapshot[k].SubDomain = allChanges[i].SubDomain
                   /\ snapshot[k].FieldType = allChanges[i].FieldType
                   /\ snapshot[k].Target = allChanges[i].Target}) >= 2 )
           => (allChanges[i].ID # 0 /\ allChanges[j].ID # 0)

\* Scenario A of the specification: records 10 (T1) and 11 (T2) of www, and
\* the new targets T1 and T3.
ScenarioA ==
  /\ OneGroupUpdate
  /\ snapshot = <<ovhRecord(10, Z1, Www, "A", T1, ovhDefaultTTL),
                  ovhRecord(11, Z1, Www, "A", T2, ovhDefaultTTL)>>
  /\ changes.UpdateNew = <<Endpoint(HostName(Www, Z1), "A", 0, <<T1, T3>>)>>

\* C6: in the Update path an existing record whose target is one of the new
\* targets is left alone (no Update or Delete of it, no Create or Update for
\* that target); Scenario A plans exactly one Update, of record 11 to T3.
C6_MatchingRecordUntouched ==
  /\ OneGroupUpdate =>
       LET e == changes.UpdateNew[1]
           group == GroupRecords(e)
       IN \A k \in 1..Len(group) :
            (\E t \in 1..Len(e.Targets) : e.Targets[t] = group[k].Target) =>
              \A i \in 1..Len(allChanges) :
                /\ allChanges[i].ID # group[k].ID
                /\ allChanges[i].Action \in {ovhCreate, ovhUpdate}
                     => allChanges[i].Target # group[k].Target
  /\ ScenarioA =>
       allChanges = <<ovhChange(ovhUpdate,
                        ovhRecord(11, Z1, Www, "A", T3, ovhDefaultTTL))>>

-----------------------------------------------------------------------------
\* Properties of the provider

\* C1: in ApplyChanges over several zones a failure in one zone never
\* reaches another zone: no call of a change and no publish of a zone is made
\* with a context that another zone's failure cancelled, and no zone returns
\* an error caused by another zone.
C1_ZonesIndependent ==
  \A z \in Scopes :
    /\ \A i \in DOMAIN cres[z] : cres[z][i] # "canceledByOther"
    /\ refreshed[z] # "canceledByOther"
    /\ zerr[z] # "canceledByOther"

\* The name server answered about a cached zone with the cached serial.
ValidatedSame(z) ==
  /\ pc = "fetching" /\ found[z] # None
  /\ answer[z].kind = "soa" /\ answer[z].Serial = found[z].Serial

\* The name server answered about a cached zone with another serial.
ValidatedOther(z) ==
  /\ pc = "fetching" /\ found[z] # None
  /\ answer[z].kind = "soa" /\ answer[z].Serial # found[z].Serial

\* C7: cache hit: with a cached snapshot of serial S and a SOA answer of
\* serial S, records() sends exactly the cached records, takes no token of
\* the rate limiter and calls the store not once.
C7_CacheHit ==
  \A z \in Zones :
    ValidatedSame(z) =>
      /\ rpc[z] = "done" /\ served[z] = "cache"
      /\ sent[z] = found[z].records
      /\ cacheInstance[z] = found[z]
      /\ takes[z] = 0 /\ calls[z] = 0

C7_Witness ==
  \E z \in Zones :
    /\ ValidatedSame(z) /\ served[z] = "cache"
    /\ found[z].records # <<>> /\ sent[z] = found[z].records

\* C8: serial mismatch: with a SOA answer whose serial is not the cached one,
\* records() invalidates the entry of the zone and fetches the zone in full
\* (the SOA, the listing, one get per listed id); once it succeeded the cache
\* holds the snapshot just fetched and not the old one.
C8_SerialMismatch ==
  \A z \in Zones :
    ValidatedOther(z) =>
      /\ served[z] # "cache"
      /\ rpc[z] # "done" => cacheInstance[z] = None
      /\ rpc[z] = "done" =>
           /\ calls[z] = 2 + Cardinality(DOMAIN rtask[z])
           /\ \A id \in DOMAIN rtask[z] : rtask[z][id] = "ok"
           /\ cacheInstance[z] = [Serial |-> soa[z], records |-> sent[z]]
           /\ cacheInstance[z] # found[z]

C8_Witness ==
  \E z \in Zones :
    /\ ValidatedOther(z) /\ rpc[z] = "done"
    /\ cacheInstance[z] # None
    /\ cacheInstance[z].records # found[z].records

\* C9: a failing validation of the cache (an error of the exchange, a first
\* answer that is no SOA, a response without an answer) never crashes or
\* fails records(): the snapshot is dropped and the zone fetched in full.
C9_ValidationNeverFails ==
  \A z \in Zones :
    (found[z] # None /\ answer[z].kind \in {"error", "malformed", "noanswer"})
    => /\ ~(crashed /\ rpc[z] = "start")
       /\ served[z] # "cache"
       /\ rpc[z] = "api" => cacheInstance[z] = None

\* C10: the fetch is fail-fast and caches nothing partial: when the SOA get,
\* the listing or one get of a record of a zone fails, records() sends no
\* records and stores no snapshot of the zone, the other gets of the zone are
\* cancelled, and Records returns a soft error and leaves lastRunRecords and
\* lastRunZones as they were.
C10_FailFast ==
  /\ [](\A z \in Zones :
          apiErr[z] # "none" =>
            /\ rpc[z] # "done" /\ served[z] = "none" /\ sent[z] = <<>>
            /\ cacheInstance[z] = None
            /\ apiErr[z] = "get" => recCancel[z])
  /\ [][(pc = "fetching" /\ pc' = "idle"
           /\ \E z \in Zones : apiErr[z] # "none")
        => (/\ recordsErr' = "soft"
            /\ lastRunRecords' = lastRunRecords
            /\ lastRunZones' = lastRunZones)]_vars

C10_Witness ==
  \E z \in Zones :
    /\ pc = "fetching" /\ apiErr[z] = "get" /\ rpc[z] = "failed"
    /\ \E id \in DOMAIN rtask[z] : rtask[z][id] = "ok"
    /\ lastRunZones # <<>>

\* Every change of the zone was carried out by the store.
AllChangesOk(z) == \A i \in DOMAIN cres[z] : cres[z][i] = "ok"

\* C11: within a zone whose changes all succeed, the cache entry of the zone
\* is invalidated and then exactly one publish call is made, and only after
\* every change of the zone has returned: no publish is made or pending
\* while a change of the zone is still to return.
C11_PublishAfterJoin ==
  \A z \in Scopes :
    /\ zpc[z] = "refresh" =>
         /\ AllChangesOk(z) /\ refreshed[z] = "none"
         /\ z \in Zones => cacheInstance[z] = None
         /\ calls[z] = Len(zoneChanges[z])
    /\ refreshed[z] # "none" =>
         /\ AllChangesOk(z) /\ zpc[z] = "done"
         /\ calls[z] = Len(zoneChanges[z]) + 1
    /\ (zpc[z] = "done" /\ AllChangesOk(z)) => refreshed[z] # "none"

C11_Witness ==
  \E z \in Zones :
    /\ UseCache /\ lastRunZones # <<>>
    /\ zpc[z] = "done" /\ refreshed[z] = "ok"
    /\ Len(zoneChanges[z]) >= 2 /\ AllChangesOk(z)

\* A change of the zone returned an error.
SomeChangeFailed(z) == \E i \in DOMAIN cres[z] : cres[z][i] \notin {"todo", "ok"}

\* C12: within a zone one of whose changes fails no publish call is made,
\* and once handleSingleZoneUpdate has returned, with or without an error,
\* the cache holds no snapshot of the zone.
C12_FailedZoneNotPublished ==
  \A z \in Scopes :
    /\ SomeChangeFailed(z) =>
         /\ refreshed[z] = "none" /\ zpc[z] # "refresh"
         /\ calls[z] <= Len(zoneChanges[z])
    /\ (zpc[z] = "done" /\ z \in Zones) => cacheInstance[z] = None

C12_Witness ==
  \E z \in Zones :
    /\ UseCache /\ lastRunZones # <<>>
    /\ zpc[z] = "done" /\ SomeChangeFailed(z)
    /\ \E i \in DOMAIN cres[z] : cres[z][i] = "ok"

\* C13: within a zone the failure of a change does not abort its siblings:
\* no change makes its call with the context of the zone cancelled by a
\* sibling, and the error of the zone is the first one recorded.
C13_SiblingsRunToCompletion ==
  \A z \in Scopes :
    /\ \A i \in DOMAIN cres[z] : cres[z][i] # "canceled"
    /\ SomeChangeFailed(z) =>
         \E i \in DOMAIN cres[z] : cres[z][i] = zerr[z]

\* The sum of a counter over the zones and the run itself.
RECURSIVE SumOver(_, _)
SumOver(counter, scopes) ==
  IF scopes = {} THEN 0
  ELSE LET s == CHOOSE x \in scopes : TRUE
       IN counter[s] + SumOver(counter, scopes \ {s})

\* C14: every call of the store (the listing of the zones, the SOA get, the
\* listing of the record ids, the get of a record, create, update, delete,
\* publish) comes after its own token of the rate limiter: the calls made
\* are never more than the tokens taken.
C14_TokenPerCall ==
  SumOver(calls, Scopes) <= SumOver(takes, Scopes)

\* The zone names of a list that are the host name or end it after a dot.
SuffixZones(zones, hostname) ==
  {zones[i] : i \in {j \in 1..Len(zones) :
     /\ Len(hostname) >= Len(zones[j])
     /\ SubSeq(hostname, Len(hostname) - Len(zones[j]) + 1, Len(hostname))
          = zones[j]}}

\* Where the change sets hold the endpoint e in the list of a kind: the
\* pairs of a key and an index.
Assigned(kind, e) ==
  UNION {{<<name, i>> : i \in {k \in 1..Len(changesByZoneName[name][kind]) :
                                 changesByZoneName[name][kind][k] = e}} :
         name \in DOMAIN changesByZoneName}

\* C15: planChangesByZoneName puts every endpoint of the Create, Delete,
\* UpdateOld and UpdateNew lists in exactly one change set, in the list of
\* the same kind, under a key that is a zone of the given list and the
\* longest one ending the host name; no change set has another key.
C15_PartitionByZone ==
  pc = "applying" =>
    /\ \A name \in DOMAIN changesByZoneName :
         \E i \in 1..Len(lastRunZones) : lastRunZones[i] = name
    /\ \A kind \in {"Create", "Delete", "UpdateOld", "UpdateNew"} :
         \A i \in 1..Len(requested[kind]) :
           LET e == requested[kind][i]
               same == {k \in 1..Len(requested[kind]) : requested[kind][k] = e}
           IN /\ Cardinality(Assigned(kind, e)) = Cardinality(same)
              /\ \A at \in Assigned(kind, e) :
                   /\ at[1] \in SuffixZones(lastRunZones, e.DNSName)
                   /\ \A y \in SuffixZones(lastRunZones, e.DNSName) :
                        Len(y) <= Len(at[1])

\* A change or the publish of a zone failed.
ZoneFailed(z) == SomeChangeFailed(z) \/ refreshed[z] \notin {"none", "ok"}

\* C16: ApplyChanges returns a soft error exactly when the changes or the
\* publish of at least one zone failed, and no error otherwise; a zone that
\* succeeded gets no further call of the store, and the return leaves the
\* store as the changes made it.
C16_SoftErrorIffZoneFailed ==
  /\ [](\A z \in Scopes :
          refreshed[z] = "ok" => calls[z] = Len(zoneChanges[z]) + 1)
  /\ [][(pc = "applying" /\ pc' = "idle")
        => /\ applyErr' = (IF \E z \in Scopes : ZoneFailed(z)
                           THEN "soft" ELSE "none")
           /\ storeRecords' = storeRecords /\ serial' = serial]_vars

C16_Witness ==
  /\ pc = "idle" /\ runs = 2 /\ recordsErr = "none"
  /\ applyErr = "soft" /\ nextID > 30

\* C17: NewOVHProvider with dryRun always fails with ErrNoDryRun, returns no
\* provider and calls the store not once; without dryRun and with a valid
\* endpoint it returns a provider with UseCache true and an empty cache.
C17_ConstructorDryRun ==
  [][(pc = "new" /\ pc' # "new") =>
       /\ construction'.dryRun =>
            /\ construction'.err = "ErrNoDryRun" /\ pc' = "noprovider"
            /\ calls' = calls /\ storeRecords' = storeRecords
       /\ (~construction'.dryRun /\ construction'.endpointValid) =>
            /\ construction'.err = "none" /\ pc' = "idle"
            /\ UseCache' /\ cacheInstance' = [z \in Zones |-> None]]_vars

\* C17, amended: NewOVHProvider with dryRun always fails, returns no provider
\* and calls the store not once; its error is ErrNoDryRun when the client of
\* the endpoint could be made, and the error of that client otherwise.
\* Without dryRun and with a valid endpoint it returns a provider with
\* UseCache true and an empty cache.
C17_ConstructorAmended ==
  [][(pc = "new" /\ pc' # "new") =>
       /\ construction'.dryRun =>
            /\ construction'.err =
                 (IF construction'.endpointValid THEN "ErrNoDryRun"
                  ELSE "endpoint")
            /\ pc' = "noprovider"
            /\ calls' = calls /\ storeRecords' = storeRecords
       /\ (~construction'.dryRun /\ construction'.endpointValid) =>
            /\ construction'.err = "none" /\ pc' = "idle"
            /\ UseCache' /\ cacheInstance' = [z \in Zones |-> None]]_vars

C17_Witness ==
  /\ construction.dryRun /\ construction.endpointValid
  /\ construction.err = "ErrNoDryRun" /\ pc = "noprovider"

\* The (zone, subdomain, type) keys of the snapshot.
SnapshotKeys ==
  {<<snapshot[i].Zone, snapshot[i].SubDomain, snapshot[i].FieldType>> :
     i \in 1..Len(snapshot)}

\* The indexes of the endpoints that carry the name and type of a key.
EndpointsOf(key) ==
  {j \in 1..Len(grouped) :
     /\ grouped[j].DNSName = HostName(key[2], key[1])
     /\ grouped[j].RecordType = key[3]}

\* C18: ovhGroupByNameAndType returns exactly one endpoint per distinct
\* (zone, subdomain, type) of the records, whose targets are, as a set, the
\* targets of the records of that key.
C18_GroupingCorrect ==
  planStep = "grouped" =>
    /\ Len(grouped) = Cardinality(SnapshotKeys)
    /\ \A key \in SnapshotKeys :
         /\ Cardinality(EndpointsOf(key)) = 1
         /\ \A j \in EndpointsOf(key) :
              {grouped[j].Targets[t] : t \in 1..Len(grouped[j].Targets)}
              = {snapshot[i].Target : i \in {n \in 1..Len(snapshot) :
                   /\ snapshot[n].Zone = key[1]
                   /\ snapshot[n].SubDomain = key[2]
                   /\ snapshot[n].FieldType = key[3]}}

C18_Witness ==
  /\ planStep = "grouped" /\ Len(snapshot) = MaxRecords
  /\ \E j \in 1..Len(grouped) : Len(grouped[j].Targets) >= 2

\* C19: a Delete target that matches an existing record takes the record out
\* of the working list the Delete path returns, so that the Update path of
\* the same pass cannot use it (Scenario B: after the Delete of T1 against
\* record 10 the working list holds no record 10).
C19_DeletedRecordLeavesPool ==
  planStep = "deleted" =>
    \A i \in WithAction(allChanges, ovhDelete) :
      allChanges[i].ID # 0 =>
        \A k \in 1..Len(existingRecords) :
          existingRecords[k].ID # allChanges[i].ID

\* The changes of a zone that returned and are no Update or Delete without a
\* record id.
SentChanges(z) ==
  {i \in DOMAIN cres[z] :
     /\ cres[z][i] # "todo"
     /\ ~(zoneChanges[z][i].Action \in {ovhUpdate, ovhDelete}
          /\ zoneChanges[z][i].ID = 0)}

\* C20: an Update or Delete change with the record id 0 never calls the
\* store: it fails with ErrRecordToMutateNotFound, which fails the changes
\* of its zone (no publish); every Create change carries the id 0.
C20_UnmatchedMutationNotSent ==
  pc = "applying" =>
    \A z \in Scopes :
      /\ \A i \in DOMAIN cres[z] :
           LET c == zoneChanges[z][i]
           IN /\ c.Action = ovhCreate => c.ID = 0
              /\ ( /\ c.Action \in {ovhUpdate, ovhDelete} /\ c.ID = 0
                   /\ cres[z][i] # "todo" )
                 => /\ cres[z][i] = "notfound"
                    /\ zerr[z] # "none" /\ refreshed[z] = "none"
                    /\ zpc[z] # "refresh"
      /\ calls[z] = Cardinality(SentChanges(z))
                      + (IF refreshed[z] # "none" THEN 1 ELSE 0)

C20_Witness ==
  \E z \in Zones :
    /\ pc = "applying" /\ lastRunZones # <<>> /\ zpc[z] = "done"
    /\ \E i \in DOMAIN cres[z] :
         /\ zoneChanges[z][i].Action = ovhDelete /\ zoneChanges[z][i].ID = 0
         /\ cres[z][i] = "notfound"

\* The call of change i of the task s is made in this step: the change had
\* not returned, and returns with something else than the error of a missing
\* record id (which is returned before any call).
ChangeCalled(s, i) ==
  /\ pc' = "applying" /\ i \in DOMAIN cres[s]
  /\ cres[s][i] = "todo" /\ cres'[s][i] \notin {"todo", "notfound"}

\* C21: ApplyChanges skips a zone to which planChangesByZoneName assigns no
\* endpoint of the request: no token is taken for it, no change of one of its
\* records and no publish of it is called, and its cache entry stays as it
\* is; an empty request makes no call at all and returns no error.
C21_UnassignedZoneSkipped ==
  /\ [][pc = "applying" =>
         \A z \in Zones :
           z \notin DOMAIN changesByZoneName =>
             /\ takes'[z] = 0 /\ calls'[z] = 0
             /\ refreshed'[z] = "none"
             /\ cacheInstance'[z] = cacheInstance[z]
             /\ \A s \in Scopes : \A i \in DOMAIN cres[s] :
                  ChangeCalled(s, i) => zoneChanges[s][i].Zone # z]_vars
  /\ [][(pc = "applying" /\ DOMAIN changesByZoneName = {})
        => /\ \A s \in Scopes : calls'[s] = 0 /\ takes'[s] = 0
           /\ pc' = "idle" => applyErr' = "none"]_vars

\* records() reads the SOA of the zone from the store in this step (the local
\* soa is zero until then, and a serial of the store never is).
SoaFetched(z) == soa[z] = 0 /\ soa'[z] # 0

\* records() adds a snapshot of the zone to the cache in this step.
SnapshotStored(z) ==
  pc = "fetching" /\ cacheInstance[z] = None /\ cacheInstance'[z] # None

\* Every record() task of the zone has returned without an error.
AllRecordsFetched(z) ==
  rpc[z] = "recs" /\ \A id \in DOMAIN rtask[z] : rtask[z][id] = "ok"

\* C22: in a full fetch of a zone the SOA serial stored with the snapshot is
\* fetched after every fetch of a record of the zone has completed, and the
\* snapshot is stored in the cache only after that.
C22_SerialAfterRecords ==
  [][\A z \in Zones :
       /\ SoaFetched(z) => AllRecordsFetched(z)
       /\ SnapshotStored(z) => (soa[z] # 0 /\ AllRecordsFetched(z))]_vars

\* C22, amended: in a full fetch of a zone the SOA serial stored with the
\* snapshot is fetched first, before the ids of the records are listed and
\* before any record is fetched; the snapshot, that serial with the records
\* fetched after it, is stored in the cache only after every fetch of a
\* record of the zone has completed without an error.
C22_SerialBeforeRecords ==
  [][\A z \in Zones :
       /\ SoaFetched(z) =>
            /\ rpc[z] = "api" /\ rtask[z] = <<>> /\ zch[z] = <<>>
            /\ soa'[z] = serial[z]
       /\ SnapshotStored(z) =>
            /\ soa[z] # 0 /\ AllRecordsFetched(z)
            /\ cacheInstance'[z] = [Serial |-> soa[z], records |-> zch[z]]]_vars

\* A stored snapshot whose serial is older than the one of the store, with a
\* record as another actor left it after the serial was read.
C22_Witness ==
  \E z \in Zones :
    /\ pc = "fetching" /\ served[z] = "api" /\ cacheInstance[z] # None
    /\ cacheInstance[z].Serial < serial[z]
    /\ \E i \in 1..Len(cacheInstance[z].records) :
         cacheInstance[z].records[i].Target = T3

\* The keys of the new endpoints of the pass, and the old endpoints whose key
\* no new endpoint has.
NewKeys ==
  {EndpointKey(changes.UpdateNew[i], zoneName) : i \in 1..Len(changes.UpdateNew)}

OldOnly ==
  {i \in 1..Len(changes.UpdateOld) :
     EndpointKey(changes.UpdateOld[i], zoneName) \notin NewKeys}

\* C23: the Update path handles the (type, subdomain) groups that are in
\* both UpdateOld and UpdateNew only: with a group of UpdateOld that has no
\* endpoint in UpdateNew the planning still completes (no crash), plans no
\* change for that group, and plans for the other groups what it would plan
\* without it.
C23_OldOnlyGroupSkipped ==
  (planStep \in {"planned", "panic"} /\ OldOnly # {}) =>
    /\ planStep = "planned"
    /\ \A c \in 1..Len(allChanges) :
         allChanges[c].Action = ovhUpdate =>
           <<allChanges[c].FieldType, allChanges[c].SubDomain>> \in NewKeys
    /\ (changes.Create = <<>> /\ changes.Delete = <<>>) =>
         \E order \in KeyOrders(NewKeys) :
           allChanges =
             newOvhChangeUpdate(
               SelectSeq(changes.UpdateOld,
                         LAMBDA e : EndpointKey(e, zoneName) \in NewKeys),
               changes.UpdateNew, zoneName, snapshot, order).changes

\* C24: every change the task of a zone plans and dispatches is a change of
\* that zone: its Zone is the zone of the task and its record id, when it
\* has one, is the id of a record of that zone among the records of the last
\* Records, whatever the records of the other zones are.
C24_ChangesStayInZone ==
  pc = "applying" =>
    \A z \in Scopes :
      \A i \in DOMAIN zoneChanges[z] :
        LET c == zoneChanges[z][i]
        IN /\ c.Zone = z
           /\ c.ID # 0 =>
                \E k \in 1..Len(lastRunRecords) :
                  lastRunRecords[k].ID = c.ID /\ lastRunRecords[k].Zone = z

\* C25: round trip of the grouping and the Delete path: the endpoints
\* ovhGroupByNameAndType makes of the records of a zone, handed back as the
\* Delete endpoints of that zone, give one Delete change per record of the
\* zone and every one of them carries a record id, also for the records at
\* the apex of the zone (empty subdomain, host name equal to the zone name).
C25_GroupDeleteRoundTrip ==
  planStep = "roundtrip" =>
    /\ Len(allChanges) =
         Cardinality({k \in 1..Len(snapshot) : snapshot[k].Zone = zoneName})
    /\ \A i \in 1..Len(allChanges) :
         allChanges[i].Action = ovhDelete /\ allChanges[i].ID # 0

\* The records of a supported type the store holds for a zone.
SupportedInStore(z) ==
  {r \in storeRecords[z] : SupportedRecordType(r.FieldType)}

\* C26: cache coherence: over any sequence of Records and ApplyChanges on
\* one provider, with changes of the store by other actors that each change
\* the serial of the zone, the records that records() serves from the cache
\* (the name server gives the cached serial) are, as a set, the records of a
\* supported type the store holds for the zone at that time.
C26_CacheCoherent ==
  [][\A z \in Zones :
       (served[z] = "none" /\ served'[z] = "cache") =>
         {sent'[z][i] : i \in 1..Len(sent'[z])} = SupportedInStore(z)]_vars

\* The ids of the records of a list.
IdsOf(records) == {records[k].ID : k \in 1..Len(records)}

\* C27: ApplyChanges plans against the zones and the records the last
\* successful Records stored, and clears both when it returns, with or
\* without an error: only a successful Records fills the two lists, every
\* return of ApplyChanges empties them, the change sets are the ones of the
\* stored zone list and a record id in a change is one of the stored
\* records; an ApplyChanges that follows an ApplyChanges with no Records in
\* between sees two empty lists, and none of its Delete or Update changes
\* carries a record id.
C27_LastRunConsumedOnce ==
  /\ [][/\ (pc = "applying" /\ pc' = "idle") =>
             (lastRunZones' = <<>> /\ lastRunRecords' = <<>>)
        /\ (lastRunZones' # lastRunZones \/ lastRunRecords' # lastRunRecords) =>
             \/ pc = "applying" /\ pc' = "idle"
             \/ pc = "fetching" /\ pc' = "idle" /\ recordsErr' = "none"
        /\ (pc = "idle" /\ pc' = "applying") =>
             changesByZoneName' = planChangesByZoneName(lastRunZones, requested')
       ]_vars
  /\ [](pc = "applying" =>
          /\ \A z \in Scopes : \A i \in DOMAIN zoneChanges[z] :
               zoneChanges[z][i].ID # 0 =>
                 zoneChanges[z][i].ID \in IdsOf(lastRunRecords)
          /\ lastCall = "ApplyChanges" =>
               /\ lastRunZones = <<>> /\ lastRunRecords = <<>>
               /\ \A z \in Scopes : \A i \in DOMAIN zoneChanges[z] :
                    zoneChanges[z][i].Action \in {ovhDelete, ovhUpdate} =>
                      zoneChanges[z][i].ID = 0)

\* Records, an ApplyChanges that created a record, and a second ApplyChanges
\* whose Delete of a target the store holds finds no record id.
C27_Witness ==
  /\ pc = "applying" /\ lastCall = "ApplyChanges" /\ runs = 3 /\ nextID > 30
  /\ \E i \in DOMAIN cres[NoZone] :
       /\ zoneChanges[NoZone][i].Action = ovhDelete
       /\ zoneChanges[NoZone][i].ID = 0
       /\ cres[NoZone][i] = "notfound"
       /\ \E r \in storeRecords[Z1] :
            /\ HostName(r.SubDomain, Z1) = zoneChanges[NoZone][i].SubDomain
            /\ r.Target = zoneChanges[NoZone][i].Target

====
